---- MODULE Spec2Model ----
(***************************************************************************)
(* State-machine model of the hey command-line client: the conversation    *)
(* cache (src/hey/cache.py), the chat exchange (src/hey/api.py) and the     *)
(* command dispatch around them (src/hey/main.py, src/hey/__main__.py).     *)
(*                                                                          *)
(* Texts are sequences of tokens, so that concatenation is \o.  A datetime  *)
(* is a number of clock units; MicrosPerSec units make one second.          *)
(***************************************************************************)
EXTENDS Integers, Sequences, FiniteSets, TLC

VARIABLES
    pc,          \* position of the process: "off", "ready", "gated", "got_vqd", "stream", "done"
    max_size,    \* Cache._max_size
    prompt,      \* Config.prompt: None or a text
    tos,         \* Config.tos, as conf.toml holds it and main's config has it
    now,         \* the wall clock, datetime.now()
    messages,    \* Cache._messages: sequence of CachedMessage
    vqd_hash,    \* Cache._vqd_hash
    disk_msgs,   \* messages.json: [exists, fault, body]
    disk_vqd,    \* vqd.base64: [exists, text]
    vqd,         \* main's local vqd: the pair get_vqd returned (material numbers)
    received,    \* number of challenge materials the server delivered in this run
    requests,    \* the requests this run has issued, in order
    payload,     \* get_response's payload.messages
    complete_response,  \* get_response's accumulator
    data,        \* get_response's local data: the last parsed event
    chunk_count, \* get_response's chunk_count: events shown on the live display
    events,      \* history: the events parsed from the stream, in order
    skipped,     \* history: the decoder has skipped a line of this stream
    errors,      \* number of error reports printed for error events
    outcome,     \* how the run ended; kept until the next run starts
    exit_status  \* the exit status of the run; NoStatus while it is running

cache_vars == <<messages, vqd_hash>>
disk_vars == <<disk_msgs, disk_vqd>>
conf_vars == <<max_size, prompt, tos>>
end_vars == <<outcome, exit_status>>
net_vars == <<vqd, received, requests, payload>>
stream_vars == <<complete_response, data, chunk_count, events, skipped, errors>>

vars == <<pc, conf_vars, now, cache_vars, disk_vars, net_vars, stream_vars, end_vars>>

(***************************************************************************)
(* Bounds of the model.                                                    *)
(***************************************************************************)
MaxN == 2            \* max_size ranges over 0..MaxN
MaxLen == 3          \* longest stored window
MaxTime == 2         \* last clock value
MaxLines == 2        \* longest stream, in events
ExpiryDelta == 1     \* Cache._expiry_delta, in clock units
MicrosPerSec == 2    \* clock units per second (microseconds, scaled)

\* an Optional[str]: None, or a text
None == [some |-> FALSE, text |-> <<>>]
Str(text) == [some |-> TRUE, text |-> text]

Whitespace == {"\n"}

Query == <<"q">>
Prompts == {<<>>, <<"p">>}      \* <<>>: no prompt configured (None or "")

Max(a, b) == IF a >= b THEN a ELSE b
Min(a, b) == IF a <= b THEN a ELSE b

(***************************************************************************)
(* models.ChatMessage and cache.CachedMessage                              *)
(***************************************************************************)
ChatMessage(role, content) == [role |-> role, content |-> content]

CachedMessage(ts, message) == [ts |-> ts, message |-> message]

\* isoformat with the fraction of the second lost
isoformat_NoFraction(ts) == <<ts \div MicrosPerSec>>

\* datetime.isoformat(): the fraction is printed only when it is not zero
isoformat(ts) ==
    IF ts % MicrosPerSec = 0
    THEN <<ts \div MicrosPerSec>>
    ELSE <<ts \div MicrosPerSec, ts % MicrosPerSec>>

\* datetime.fromisoformat()
fromisoformat(s) ==
    IF Len(s) = 1 THEN s[1] * MicrosPerSec ELSE s[1] * MicrosPerSec + s[2]

to_dict(msg) ==
    [ts |-> isoformat(msg.ts), role |-> msg.message.role,
     content |-> msg.message.content]

from_dict(d) ==
    CachedMessage(fromisoformat(d.ts), ChatMessage(d.role, d.content))

MapSeq(s, Op(_)) == [i \in 1..Len(s) |-> Op(s[i])]

\* Python's s[start:]
PySliceFrom(s, start) ==
    LET lo == IF start < 0 THEN Max(Len(s) + start, 0) ELSE Min(start, Len(s))
    IN  SubSeq(s, lo + 1, Len(s))

\* str.strip()
RECURSIVE LStrip(_)
LStrip(text) ==
    IF text # <<>> /\ Head(text) \in Whitespace THEN LStrip(Tail(text)) ELSE text

RECURSIVE RStrip(_)
RStrip(text) ==
    IF text # <<>> /\ text[Len(text)] \in Whitespace
    THEN RStrip(SubSeq(text, 1, Len(text) - 1))
    ELSE text

Strip(text) == RStrip(LStrip(text))

\* Python's `x or ""` for an Optional[str]
OrEmpty(h) == IF h.some THEN h.text ELSE <<>>

(***************************************************************************)
(* Cache                                                                   *)
(***************************************************************************)
\* Cache.get_messages, as a function of the state it reads
get_messages_of(msgs, t, n) ==
    LET Fresh(msg) == t - msg.ts <= ExpiryDelta
        Message(msg) == msg.message
    IN  MapSeq(SelectSeq(PySliceFrom(msgs, -n), Fresh), Message)

get_messages == get_messages_of(messages, now, max_size)

get_vqd_hash == vqd_hash

\* a file of messages.json: fault is "none" for a file that opens and holds a
\* JSON list (body), "unreadable" for one open() refuses, "invalid" for one
\* json.load() refuses, an empty or cut-off file included
NoFile == [exists |-> FALSE, fault |-> "none", body |-> <<>>]
File(body) == [exists |-> TRUE, fault |-> "none", body |-> body]
FaultyFile(fault) == [exists |-> TRUE, fault |-> fault, body |-> <<>>]

\* datetime.fromisoformat raises ValueError
BadTimestamp(s) == Len(s) \notin {1, 2}

\* CachedMessage.from_dict raises: KeyError for a missing key, ValueError for a
\* timestamp that does not parse
BadEntry(d) ==
    \/ ~({"ts", "role", "content"} \subseteq DOMAIN d)
    \/ BadTimestamp(d.ts)

\* the loop of Cache.load: entries are appended one by one until one raises
RECURSIVE LoadEntries(_, _)
LoadEntries(msgs, body) ==
    IF body = <<>> \/ BadEntry(Head(body)) THEN msgs
    ELSE LoadEntries(Append(msgs, from_dict(Head(body))), Tail(body))

\* Cache.load, first half: the window after messages.json is appended to msgs;
\* FileNotFoundError is passed over, any other exception is printed as a warning
LoadedMessages(msgs) ==
    IF ~disk_msgs.exists \/ disk_msgs.fault # "none" THEN msgs
    ELSE LoadEntries(msgs, disk_msgs.body)

\* Cache.load, second half: the proof after vqd.base64 is read
LoadedVqd(h) ==
    IF disk_vqd.exists THEN Str(Strip(disk_vqd.text)) ELSE h

\* Cache.save, first half: messages.json as written
SavedMessages == File(MapSeq(messages, to_dict))

\* save writing a proof derived from the material received in this run
SavedVqd_Refreshed ==
    [exists |-> TRUE, text |-> IF received > 0 THEN <<"P1">> ELSE OrEmpty(vqd_hash)]

\* save writing an empty proof file
SavedVqd_Blank == [exists |-> TRUE, text |-> <<>>]

\* Cache.save, second half: vqd.base64 as written
SavedVqd == [exists |-> TRUE, text |-> OrEmpty(vqd_hash)]

\* memory.get_cache(): the Cache instance of the process, the one main's with
\* block constructs and saves
get_cache == [messages |-> messages, vqd_hash |-> vqd_hash]

\* Cache.add_message
add_message(msgs, message) == Append(msgs, CachedMessage(now, message))

\* Cache.clear
clear(msgs) == <<>>

(***************************************************************************)
(* The stream: raw lines and their decoding                                *)
(***************************************************************************)
NoEvent == [kind |-> "none", action |-> "", has_message |-> FALSE, message |-> <<>>]

Event(action, has_message, message) ==
    [kind |-> "object", action |-> action, has_message |-> has_message,
     message |-> message]

Garbage == [kind |-> "garbage", action |-> "", has_message |-> FALSE, message |-> <<>>]

\* what a line can hold after its prefix: nothing, text that is no JSON, an event
Bodies ==
    { NoEvent, Garbage,
      Event("success", TRUE, <<"Hi">>),
      Event("success", FALSE, <<>>),
      Event("ping", TRUE, <<"x">>),
      Event("error", FALSE, <<>>) }

\* the lines response.iter_lines() can yield
Lines == [prefix : BOOLEAN, body : Bodies]

\* `not line`
IsBlank(line) == ~line.prefix /\ line.body.kind = "none"

\* line.removeprefix("data: ")
removeprefix(line) == line.body

\* json.loads accepting any text
JSONDecodeError_Never(body) == FALSE

\* json.loads raises JSONDecodeError
JSONDecodeError(body) == body.kind # "object"

(***************************************************************************)
(* The process                                                             *)
(***************************************************************************)
NoVqd == [token |-> 0, hash |-> 0]

NoStatus == -1

\* the gate letting every run through
TosRefused_Never(t) == FALSE

\* main: `if not config.tos`
TosRefused(t) == ~t

\* cli.configure_model: the GET of the chat page, from which the model list is read
ModelListRequest == [kind |-> "models", vqd4 |-> 0, hash |-> "", newest |-> 0]

\* get_vqd issuing no status request
StatusRequest_None == [kind |-> "none", vqd4 |-> 0, hash |-> "", newest |-> 0]

\* the GET of /duckchat/v1/status
StatusRequest == [kind |-> "status", vqd4 |-> 0, hash |-> "", newest |-> 0]

\* the chat POST presenting the token of the material before the newest
ChatRequest_Stale(v, newest) ==
    [kind |-> "chat", vqd4 |-> v.token - 1, hash |-> "initial", newest |-> newest]

\* the chat POST: its x-vqd-4 and x-vqd-hash-1 headers; newest is the number of
\* the newest material received when it is sent
ChatRequest(v, newest) ==
    [kind |-> "chat", vqd4 |-> v.token, hash |-> "initial", newest |-> newest]

\* get_response's payload.messages: a copy of cache.get_messages(), message by message
PayloadMessages(msgs, t, n) ==
    LET Copy(msg) == ChatMessage(msg.role, msg.content)
    IN  MapSeq(get_messages_of(msgs, t, n), Copy)

\* get_response's user message content
UserContent(p, query) == IF p # <<>> THEN p \o <<": ">> \o query ELSE query

\* the reply stored under the role assistant, with no marker
AssistantMessage_AssistantRole(text) == ChatMessage("assistant", text)

\* get_response's message for the reply
AssistantMessage(text) == ChatMessage("user", <<"your answer: ">> \o text)

\* get_vqd never raising for a missing header
VqdMissing_Never(has_vqd, has_hash) == FALSE

\* get_vqd raises ValueError: a header is missing from the status response
VqdMissing(has_vqd, has_hash) == ~has_vqd \/ ~has_hash

\* `data.get("action") == "error"`
IsError(ev) == ev.action = "error"

\* the loop going on after an error event
ErrorExit_Continue == "stream"

\* sys.exit(1) on an error event: get_response is left at once
ErrorExit == "done"

\* complete_response after an event: `if "message" in data`
Accumulate(acc, ev) == IF ev.has_message THEN acc \o ev.message ELSE acc

\* the condition under which the reply is added to the cache
ShouldCommit(acc, ev) == acc # <<>> /\ ~IsError(ev)

\* the state the loop body works on, as one record
Decoder ==
    [pc |-> pc, outcome |-> outcome, exit_status |-> exit_status,
     complete_response |-> complete_response,
     data |-> data, chunk_count |-> chunk_count, events |-> events,
     skipped |-> skipped, errors |-> errors, messages |-> get_cache.messages]

\* the body of `for line in response.iter_lines()` for one line
DecodeLine(st, line) ==
    IF IsBlank(line) THEN [st EXCEPT !.skipped = TRUE]
    ELSE IF JSONDecodeError(removeprefix(line)) THEN [st EXCEPT !.skipped = TRUE]
    ELSE LET ev == removeprefix(line)
             got == [st EXCEPT !.data = ev, !.events = Append(st.events, ev)]
         IN  IF IsError(ev)
             THEN [got EXCEPT !.errors = st.errors + 1, !.pc = ErrorExit,
                              !.outcome = "stream_error", !.exit_status = 1]
             ELSE IF ev.has_message
             THEN [got EXCEPT !.chunk_count = st.chunk_count + 1,
                              !.complete_response = Accumulate(st.complete_response, ev)]
             ELSE got


FreshRun ==
    /\ vqd' = NoVqd
    /\ received' = 0
    /\ requests' = <<>>
    /\ payload' = <<>>
    /\ complete_response' = <<>>
    /\ data' = NoEvent
    /\ chunk_count' = 0
    /\ events' = <<>>
    /\ skipped' = FALSE
    /\ errors' = 0

Init ==
    /\ pc = "off"
    /\ max_size \in 0..MaxN
    /\ prompt \in Prompts
    /\ tos \in BOOLEAN
    /\ now = 0
    /\ messages = <<>>
    /\ vqd_hash = None
    /\ disk_msgs = NoFile
    /\ disk_vqd \in { [exists |-> FALSE, text |-> <<>>],
                      [exists |-> TRUE, text |-> <<"P0", "\n">>] }
    /\ vqd = NoVqd
    /\ received = 0
    /\ requests = <<>>
    /\ payload = <<>>
    /\ complete_response = <<>>
    /\ data = NoEvent
    /\ chunk_count = 0
    /\ events = <<>>
    /\ skipped = FALSE
    /\ errors = 0
    /\ outcome = "none"
    /\ exit_status = NoStatus

\* time passes between two runs; a run is short against the clock's unit
Tick ==
    /\ pc = "off"
    /\ now < MaxTime
    /\ now' = now + 1
    /\ UNCHANGED <<pc, conf_vars, cache_vars, disk_vars, net_vars, stream_vars, end_vars>>

\* main: `with Cache() as cache`, that is Cache.__init__ and its load()
Construct ==
    /\ pc = "off"
    /\ pc' = "ready"
    /\ messages' = LoadedMessages(<<>>)
    /\ vqd_hash' = LoadedVqd(None)
    /\ outcome' = "none"
    /\ exit_status' = NoStatus
    /\ UNCHANGED <<conf_vars, now, disk_vars, net_vars, stream_vars>>

\* main: the `config` command; run_config asks for the acceptance of the terms,
\* fetches the model list and saves conf.toml when the user confirms
MainConfig ==
    /\ pc = "ready"
    /\ requests' = Append(requests, ModelListRequest)
    /\ \E agree \in BOOLEAN, save \in BOOLEAN :
          tos' = (tos \/ (agree /\ save))
    /\ pc' = "done"
    /\ outcome' = "configured"
    /\ exit_status' = 0
    /\ UNCHANGED <<max_size, prompt, now, cache_vars, disk_vars, vqd, received,
                   payload, stream_vars>>

\* main: the `clear` command
MainClear ==
    /\ pc = "ready"
    /\ messages' = clear(messages)
    /\ pc' = "done"
    /\ outcome' = "cleared"
    /\ exit_status' = 0
    /\ UNCHANGED <<conf_vars, now, vqd_hash, disk_vars, net_vars, stream_vars>>

\* main, from --agree-tos to the check of the terms, for a run on a terminal
\* with a query: --agree-tos sets config.tos and saves it; without the terms
\* accepted the run ends with sys.exit(3)
Gate ==
    /\ pc = "ready"
    /\ \E agree_tos \in BOOLEAN :
          LET accepted == tos \/ agree_tos IN
          /\ tos' = accepted
          /\ IF TosRefused(accepted)
             THEN pc' = "done" /\ outcome' = "tos_required" /\ exit_status' = 3
             ELSE pc' = "gated" /\ UNCHANGED end_vars
    /\ UNCHANGED <<max_size, prompt, now, cache_vars, disk_vars, net_vars, stream_vars>>

\* DuckAI.get_vqd, called by main: the status request and its response headers
GetVqd ==
    /\ pc = "gated"
    /\ Len(messages) + 2 <= MaxLen
    /\ requests' = Append(requests, StatusRequest)
    /\ \E has_vqd \in BOOLEAN, has_hash \in BOOLEAN :
          /\ received' = IF has_vqd THEN received + 1 ELSE received
          /\ IF VqdMissing(has_vqd, has_hash)
             THEN \* ValueError, caught by main: sys.exit(1)
                  /\ pc' = "done"
                  /\ outcome' = "no_vqd"
                  /\ exit_status' = 1
                  /\ UNCHANGED vqd
             ELSE \* response.headers.get(...): no value for a header that is missing
                  /\ vqd' = [token |-> IF has_vqd THEN received + 1 ELSE 0,
                             hash |-> IF has_hash THEN received + 1 ELSE 0]
                  /\ pc' = "got_vqd"
                  /\ UNCHANGED end_vars
    /\ UNCHANGED <<conf_vars, now, cache_vars, disk_vars, payload, stream_vars>>

\* DuckAI.get_response up to the first line of the stream: the user message,
\* the payload, the chat POST and the response's x-vqd-4 header
GetResponse ==
    /\ pc = "got_vqd"
    /\ messages' = add_message(get_cache.messages,
                               ChatMessage("user", UserContent(prompt, Query)))
    /\ payload' = PayloadMessages(messages', now, max_size)
    /\ requests' = Append(requests, ChatRequest(vqd, received))
    /\ \E new_vqd \in BOOLEAN :
          received' = IF new_vqd THEN received + 1 ELSE received
    /\ pc' = "stream"
    /\ UNCHANGED <<conf_vars, now, vqd_hash, disk_vars, vqd, stream_vars, end_vars>>

\* one pass of `for line in response.iter_lines()`
StreamLine ==
    /\ pc = "stream"
    /\ Len(events) < MaxLines
    /\ \E line \in Lines :
          LET st == DecodeLine(Decoder, line) IN
          /\ skipped' = st.skipped
          /\ pc' = st.pc
          /\ outcome' = st.outcome
          /\ exit_status' = st.exit_status
          /\ complete_response' = st.complete_response
          /\ data' = st.data
          /\ chunk_count' = st.chunk_count
          /\ events' = st.events
          /\ errors' = st.errors
          /\ messages' = st.messages
    /\ UNCHANGED <<conf_vars, now, vqd_hash, disk_vars, net_vars>>

\* the stream ends: get_response's tail, and main returns
StreamEnd ==
    /\ pc = "stream"
    /\ messages' =
          IF ShouldCommit(complete_response, data)
          THEN add_message(get_cache.messages, AssistantMessage(complete_response))
          ELSE messages
    /\ pc' = "done"
    /\ outcome' = "completed"
    /\ exit_status' = 0
    /\ UNCHANGED <<conf_vars, now, vqd_hash, disk_vars, net_vars, stream_vars>>

\* main's with block ends: Cache.__exit__ saves, and the process is gone
Exit ==
    /\ pc = "done"
    /\ disk_msgs' = SavedMessages
    /\ disk_vqd' = SavedVqd
    /\ pc' = "off"
    /\ messages' = <<>>
    /\ vqd_hash' = None
    /\ FreshRun
    /\ UNCHANGED <<conf_vars, now, end_vars>>

Next ==
    \/ Tick
    \/ Construct
    \/ MainConfig
    \/ MainClear
    \/ Gate
    \/ GetVqd
    \/ GetResponse
    \/ StreamLine
    \/ StreamEnd
    \/ Exit

Spec == Init /\ [][Next]_vars

(***************************************************************************)
(* Storage that fails: files damaged between two runs, and a save that      *)
(* fails or is cut by the end of the process.                               *)
(***************************************************************************)
\* an entry of messages.json that has lost a key, or whose timestamp is no date
DamagedEntry(d, how) ==
    IF how = "no_content" THEN [ts |-> d.ts, role |-> d.role]
    ELSE [d EXCEPT !.ts = <<>>]

\* messages.json holds something Cache.load cannot take in whole
Damaged ==
    /\ disk_msgs.exists
    /\ \/ disk_msgs.fault # "none"
       \/ \E i \in 1..Len(disk_msgs.body) : BadEntry(disk_msgs.body[i])

\* between two runs messages.json is damaged: made unreadable, cut off, or one
\* of its entries spoilt
Damage ==
    /\ pc = "off"
    /\ disk_msgs.exists
    /\ ~Damaged
    /\ \/ \E fault \in {"unreadable", "invalid"} : disk_msgs' = FaultyFile(fault)
       \/ \E i \in 1..Len(disk_msgs.body), how \in {"no_content", "bad_ts"} :
             disk_msgs' = File([disk_msgs.body EXCEPT ![i] = DamagedEntry(@, how)])
    /\ UNCHANGED <<pc, conf_vars, now, cache_vars, disk_vqd, net_vars, stream_vars,
                   end_vars>>

\* where Cache.save can fail: mkdir raises; open() of a file raises; json.dump
\* raises after open() has emptied messages.json; the process is ended (a kill,
\* a power cut) after open() has emptied messages.json, or between the two files
SaveFaults ==
    {"mkdir", "open_msgs", "dump_msgs", "open_vqd", "killed_in_msgs", "killed_between"}

\* the exception leaves save: mkdir is called outside the try blocks
SaveRaises(fault) == fault = "mkdir"

SaveKilled(fault) == fault \in {"killed_in_msgs", "killed_between"}

\* messages.json after a save that met the fault
SavedMessagesUnder(fault) ==
    IF fault \in {"mkdir", "open_msgs"} THEN disk_msgs
    ELSE IF fault \in {"dump_msgs", "killed_in_msgs"} THEN FaultyFile("invalid")
    ELSE SavedMessages

\* vqd.base64 after a save that met the fault
SavedVqdUnder(fault) ==
    IF fault \in {"mkdir", "open_vqd", "killed_in_msgs", "killed_between"} THEN disk_vqd
    ELSE SavedVqd

\* main's with block ends and Cache.save meets a fault; mkdir can fail only
\* where the directory, and so both files, do not exist
ExitFault ==
    /\ pc = "done"
    /\ \E fault \in SaveFaults :
          /\ fault = "mkdir" => ~disk_msgs.exists /\ ~disk_vqd.exists
          /\ disk_msgs' = SavedMessagesUnder(fault)
          /\ disk_vqd' = SavedVqdUnder(fault)
          /\ IF SaveRaises(fault) THEN outcome' = "save_raised" /\ exit_status' = 1
             ELSE IF SaveKilled(fault) THEN outcome' = "killed" /\ exit_status' = 137
             ELSE UNCHANGED end_vars
    /\ pc' = "off"
    /\ messages' = <<>>
    /\ vqd_hash' = None
    /\ FreshRun
    /\ UNCHANGED <<conf_vars, now>>

\* runs with the terms accepted and the largest window
InitStorage == Init /\ tos /\ max_size = MaxN

NextStorage ==
    \/ Tick
    \/ Damage
    \/ Construct
    \/ MainConfig
    \/ MainClear
    \/ Gate
    \/ GetVqd
    \/ GetResponse
    \/ StreamLine
    \/ StreamEnd
    \/ Exit
    \/ ExitFault

StorageSpec == InitStorage /\ [][NextStorage]_vars

(***************************************************************************)
(* Requests and streams cut short: a transport error or a timeout raised    *)
(* by httpx, or the user's interrupt (KeyboardInterrupt).                   *)
(***************************************************************************)
Cuts == {"transport_error", "timeout", "interrupt"}

\* main: `except Exception` ends the run with sys.exit(1); KeyboardInterrupt is
\* no Exception and ends the process as the interpreter does for SIGINT
CutStatus(cut) == IF cut = "interrupt" THEN 130 ELSE 1

\* a handler that stores the text accumulated so far when the stream is cut
AfterCut_Partial(msgs, acc) ==
    IF acc # <<>> THEN add_message(msgs, AssistantMessage(acc)) ELSE msgs

\* the cache after an exception has left get_response from within the
\* `with self.client.stream(...)` block: the tail that adds the reply is not run
AfterCut(msgs, acc) == msgs

\* DuckAI.get_vqd: client.get raises
GetVqdCut ==
    /\ pc = "gated"
    /\ Len(messages) + 2 <= MaxLen
    /\ requests' = Append(requests, StatusRequest)
    /\ \E cut \in Cuts :
          outcome' = cut /\ exit_status' = CutStatus(cut)
    /\ pc' = "done"
    /\ UNCHANGED <<conf_vars, now, cache_vars, disk_vars, vqd, received, payload,
                   stream_vars>>

\* DuckAI.get_response: client.stream raises on the chat POST, after the user
\* message was added and the payload built
GetResponseCut ==
    /\ pc = "got_vqd"
    /\ messages' = add_message(get_cache.messages,
                               ChatMessage("user", UserContent(prompt, Query)))
    /\ payload' = PayloadMessages(messages', now, max_size)
    /\ requests' = Append(requests, ChatRequest(vqd, received))
    /\ \E cut \in Cuts :
          outcome' = cut /\ exit_status' = CutStatus(cut)
    /\ pc' = "done"
    /\ UNCHANGED <<conf_vars, now, vqd_hash, disk_vars, vqd, received, stream_vars>>

\* DuckAI.get_response: response.iter_lines() raises between two lines
StreamCut ==
    /\ pc = "stream"
    /\ messages' = AfterCut(get_cache.messages, complete_response)
    /\ \E cut \in Cuts :
          outcome' = cut /\ exit_status' = CutStatus(cut)
    /\ pc' = "done"
    /\ UNCHANGED <<conf_vars, now, vqd_hash, disk_vars, net_vars, stream_vars>>

InitTransport == InitStorage

NextTransport ==
    \/ Tick
    \/ Construct
    \/ MainConfig
    \/ MainClear
    \/ Gate
    \/ GetVqd
    \/ GetVqdCut
    \/ GetResponse
    \/ GetResponseCut
    \/ StreamLine
    \/ StreamCut
    \/ StreamEnd
    \/ Exit

TransportSpec == InitTransport /\ [][NextTransport]_vars

(***************************************************************************)
(* Properties                                                              *)
(***************************************************************************)
MessageOf(msg) == msg.message

\* the window as the run found it: messages.json has not changed since load
Loaded == LoadedMessages(<<>>)

\* the step that ends a run and saves
ExitStep == pc # "off" /\ pc' = "off"

\* the turns of msgs from index i on that are among the last n and not older
\* than the horizon at time t, oldest first
RECURSIVE KeptFrom(_, _, _, _)
KeptFrom(msgs, i, t, n) ==
    IF i > Len(msgs) THEN <<>>
    ELSE (IF i > Len(msgs) - n /\ t - msgs[i].ts <= ExpiryDelta
          THEN <<msgs[i].message>> ELSE <<>>) \o KeptFrom(msgs, i + 1, t, n)

\* C1: get_messages() returns exactly the turns that are among the last
\* max_size stored entries and whose age is at most the expiry horizon, in
\* insertion order, for every configured max_size.
C1_ReadContext == get_messages = KeptFrom(messages, 1, now, max_size)

\* C1, for a max_size of at least 1 only
ReadContextPositiveSize == max_size >= 1 => C1_ReadContext

\* C2: the window saved at the end of a run is the window a fresh instance
\* loads (same role, content, timestamp and order, whatever its length and the
\* age of its turns), and add_message only appends.
C2_RoundTrip ==
    [][ /\ ExitStep => disk_msgs'.exists /\ Loaded' = messages
        /\ (pc # "off" /\ pc' # "off" /\ messages' # messages /\ messages' # <<>>)
              => /\ Len(messages') = Len(messages) + 1
                 /\ SubSeq(messages', 1, Len(messages)) = messages ]_vars

\* C2 witness: a fresh instance has loaded more than max_size turns, one of
\* them older than the horizon and one with a fractional timestamp
C2_Witness ==
    /\ pc = "ready"
    /\ max_size >= 1
    /\ Len(messages) > max_size
    /\ \E i \in 1..Len(messages) : now - messages[i].ts > ExpiryDelta
    /\ \E i \in 1..Len(messages) : messages[i].ts % MicrosPerSec # 0

\* C3: clear() empties get_messages() and leaves the cached proof as it is;
\* after the save at exit a fresh instance loads an empty context and the
\* proof text that was cached before the clear.
C3_ClearKeepsProof ==
    [][ /\ (pc = "ready" /\ outcome' = "cleared")
              => get_messages' = <<>> /\ get_vqd_hash' = get_vqd_hash
        /\ (outcome = "cleared" /\ ExitStep)
              => /\ get_messages_of(Loaded', now', max_size') = <<>>
                 /\ OrEmpty(LoadedVqd(None)') = OrEmpty(get_vqd_hash) ]_vars

\* C3 witness: a window that was not empty has been cleared while a proof is cached
C3_Witness ==
    /\ pc = "done"
    /\ outcome = "cleared"
    /\ Loaded # <<>>
    /\ get_messages = <<>>
    /\ get_vqd_hash = Str(<<"P0">>)

\* the message texts of the success events with a non-empty message, in order
RECURSIVE SuccessText(_)
SuccessText(evs) ==
    IF evs = <<>> THEN <<>>
    ELSE (IF Head(evs).action = "success" /\ Head(evs).has_message /\ Head(evs).message # <<>>
          THEN Head(evs).message ELSE <<>>) \o SuccessText(Tail(evs))

\* the message texts of all events that have a message field, in order
RECURSIVE MessageText(_)
MessageText(evs) ==
    IF evs = <<>> THEN <<>>
    ELSE (IF Head(evs).has_message THEN Head(evs).message ELSE <<>>)
         \o MessageText(Tail(evs))

\* the user Turn of this run's query
UserTurn == ChatMessage("user", UserContent(prompt, Query))

Turns(msgs) == MapSeq(msgs, MessageOf)

IsChat(r) == r.kind = "chat"

ChatSent == \E i \in 1..Len(requests) : IsChat(requests[i])

\* C4 as claimed: a stream that ends without an error event commits exactly one
\* Turn with role assistant whose content is the concatenation of the message
\* texts of the success events with a non-empty message.
C4_AssistantTurn ==
    (pc = "done" /\ outcome = "completed")
       => Turns(messages) =
             Turns(Loaded) \o <<UserTurn, ChatMessage("assistant", SuccessText(events))>>

\* C4 amended: a stream that ends without an error event commits one Turn with
\* role user and content "your answer: " followed by the concatenation of the
\* message texts of all events with a message field, whatever their action,
\* when that concatenation is not empty, and commits no Turn when it is empty.
C4_ReplyTurn ==
    (pc = "done" /\ outcome = "completed")
       => Turns(messages) =
             Turns(Loaded) \o <<UserTurn>> \o
             (IF MessageText(events) # <<>>
              THEN <<ChatMessage("user", <<"your answer: ">> \o MessageText(events))>>
              ELSE <<>>)

\* C4 witness: a reply made of a success text and of the text of another action
\* has been committed
C4_Witness ==
    /\ pc = "done"
    /\ outcome = "completed"
    /\ SuccessText(events) # <<>>
    /\ MessageText(events) # SuccessText(events)
    /\ Len(messages) = Len(Loaded) + 2

\* C5: an error event is reported once and ends the exchange at once: no line
\* is consumed after it, the cache holds the window as loaded plus the user Turn
\* and no Turn for the reply, and that is the window persisted at exit.
C5_ErrorEvent ==
    outcome = "stream_error"
       => /\ pc \in {"done", "off"}
          /\ pc = "done"
                => /\ errors = 1
                   /\ \A i \in 1..Len(events) : IsError(events[i]) <=> i = Len(events)
                   /\ Turns(messages) = Turns(Loaded) \o <<UserTurn>>
          /\ pc = "off"
                => /\ disk_msgs.exists
                   /\ Loaded # <<>>
                   /\ Loaded[Len(Loaded)].message = UserTurn

\* C5 witness: the error event came after message text had been received
C5_Witness ==
    /\ pc = "done"
    /\ outcome = "stream_error"
    /\ complete_response # <<>>
    /\ errors = 1

\* the lines the decoder is to skip: blank, or no JSON after the prefix
SkippedLines == {line \in Lines : line.body.kind # "object"}

\* the decoder's state but for the record that a line was skipped
Decoded(st) == [st EXCEPT !.skipped = FALSE]

\* C6: a blank line or a line that holds no valid JSON changes nothing: the
\* accumulator, the last event, the chunk count, the error count and the cache
\* are as they were, the reply is committed or not as it would have been, and
\* the loop stays in the stream, so the next line is decoded from the very
\* state the line found.
C6_SkippedLines ==
    pc = "stream"
       => \A line \in SkippedLines :
             LET st == DecodeLine(Decoder, line) IN
             /\ Decoded(st) = Decoded(Decoder)
             /\ st.pc = "stream"
             /\ ShouldCommit(st.complete_response, st.data)
                   = ShouldCommit(complete_response, data)

\* C6 witness: a stream in which a line was skipped has ended with its reply committed
C6_Witness ==
    /\ pc = "done"
    /\ outcome = "completed"
    /\ skipped
    /\ Len(events) = MaxLines
    /\ Len(messages) = Len(Loaded) + 2

\* C7 as claimed: a chat request presents the newest material, and a proof held
\* from older material, the one loaded from the persisted cache included, is
\* invalidated as soon as new material has been received.
C7_FreshProof ==
    /\ \A i \in 1..Len(requests) :
          IsChat(requests[i]) => requests[i].vqd4 = requests[i].newest
    /\ received >= 1 => OrEmpty(get_vqd_hash) = <<>>

\* C7 amended: every chat request presents the token of the newest material
\* received before it, the one of the status fetch of the same run, with the
\* fixed hash "initial"; the proof held in the cache is never presented, and
\* receiving new material neither invalidates nor replaces it.
C7_FreshToken ==
    /\ \A i \in 1..Len(requests) :
          IsChat(requests[i])
             => /\ requests[i].vqd4 = requests[i].newest
                /\ requests[i].vqd4 >= 1
                /\ requests[i].hash = "initial"
    /\ received >= 1 => get_vqd_hash = LoadedVqd(None)

\* C7 witness: the chat request is out, its response brought newer material, and
\* the cache still holds the proof it loaded
C7_Witness ==
    /\ ChatSent
    /\ received = 2
    /\ get_vqd_hash = Str(<<"P0">>)

\* a run that went past the checks of main and asked for a reply has ended
QueryEnded == pc = "done" /\ outcome \in {"no_vqd", "stream_error", "completed"}

\* C8 as claimed: with a cached proof no status request is issued; without one
\* the status endpoint is fetched and the proof from it is in the cache before
\* the chat request is sent.
C8_ReuseProof ==
    pc # "off"
       => /\ OrEmpty(LoadedVqd(None)) # <<>>
                => \A i \in 1..Len(requests) : requests[i].kind # "status"
          /\ (OrEmpty(LoadedVqd(None)) = <<>> /\ ChatSent)
                => /\ requests[1].kind = "status"
                   /\ OrEmpty(get_vqd_hash) # <<>>

\* C8 amended: the cached proof is never used to skip the fetch: every query
\* issues one status request first, with or without a cached proof, the chat
\* request follows it only once the fetch has returned both headers, and nothing
\* from the fetch is stored in the cache.
C8_AlwaysFetch ==
    (pc \in {"got_vqd", "stream"} \/ QueryEnded)
       => /\ requests # <<>>
          /\ requests[1].kind = "status"
          /\ \A i \in 2..Len(requests) : i = 2 /\ IsChat(requests[i])
          /\ ChatSent => vqd.token >= 1 /\ vqd.hash >= 1
          /\ OrEmpty(get_vqd_hash) = OrEmpty(LoadedVqd(None))

\* C8 witness: a proof is cached and the status request was issued all the same
C8_Witness ==
    /\ pc = "stream"
    /\ OrEmpty(get_vqd_hash) = <<"P0">>
    /\ Len(requests) = 2
    /\ requests[1].kind = "status"

\* C9: when the status response lacks a gating header the run ends without a
\* chat request and without any Turn added to the cache; a chat request is only
\* ever sent after a status fetch that returned both headers.
C9_NoGatingHeader ==
    /\ outcome = "no_vqd"
          => /\ pc \in {"done", "off"}
             /\ pc = "done"
                   => /\ ~ChatSent
                      /\ requests = <<StatusRequest>>
                      /\ messages = Loaded
    /\ \A i \in 1..Len(requests) :
          IsChat(requests[i])
             => /\ i > 1 /\ requests[i - 1].kind = "status"
                /\ requests[i].vqd4 >= 1
                /\ vqd.token >= 1 /\ vqd.hash >= 1

\* C9 witness: the fetch failed in a run that had loaded a window
C9_Witness ==
    /\ pc = "done"
    /\ outcome = "no_vqd"
    /\ Loaded # <<>>

\* the material a proof text was derived from: 0 for the proof found on disk,
\* which is older than any material of this run; -1 for no proof
DerivedFrom(text) == IF text = <<"P0">> THEN 0 ELSE -1

\* C10 as claimed: the proof persisted at exit is the one derived from the most
\* recently received material.
C10_RefreshedProof ==
    [][(ExitStep /\ ChatSent /\ received = 2)
          => DerivedFrom(disk_vqd'.text) = received]_vars

\* C10 amended: new material in the chat response is only logged; no refresh
\* runs, a run issues at most one chat request, and the proof persisted at exit
\* is the proof text loaded at start (empty when none was loaded).
C10_ProofAsLoaded ==
    /\ [][ExitStep => /\ disk_vqd'.exists
                      /\ disk_vqd'.text =
                            (IF disk_vqd.exists THEN Strip(disk_vqd.text) ELSE <<>>)]_vars
    /\ [](Cardinality({i \in 1..Len(requests) : IsChat(requests[i])}) <= 1)

\* C10 witness: a run that received new material with its chat response is about
\* to exit with the proof it loaded
C10_Witness ==
    /\ pc = "done"
    /\ outcome = "completed"
    /\ received = 2
    /\ get_vqd_hash = Str(<<"P0">>)
    /\ disk_vqd.text = <<"P0", "\n">>

\* C11 as claimed: after a load that met a messages.json it could not take in
\* whole (unreadable, no JSON, or an entry at any position without a key or
\* with a timestamp that is no date) the run goes on and the window is empty.
C11_LoadAllOrNothing ==
    (pc = "ready" /\ Damaged) => messages = <<>>

\* C11, the part that holds: a file that cannot be opened or is no JSON leaves
\* the window empty, and a spoilt entry leaves in the window the entries before
\* it and none from it on
LoadKeepsPrefix ==
    (pc = "ready" /\ Damaged)
       => /\ disk_msgs.fault # "none" => messages = <<>>
          /\ \A i \in 1..Len(disk_msgs.body) :
                (BadEntry(disk_msgs.body[i])
                   /\ \A j \in 1..(i - 1) : ~BadEntry(disk_msgs.body[j]))
                  => messages = MapSeq(SubSeq(disk_msgs.body, 1, i - 1), from_dict)

\* C12 as claimed: no run ends with an exception raised by Cache.save.
C12_SaveNeverRaises == outcome # "save_raised"

\* C12, the part that holds: a file that cannot be opened or written leaves
\* the end of the run as it was
WriteFaultsNotRaised ==
    [][(ExitStep /\ outcome' \notin {"save_raised", "killed"})
          => UNCHANGED end_vars]_vars

\* what a load() of the files would observe: the window and the proof
LoadObserved == <<LoadedMessages(<<>>), LoadedVqd(None)>>

\* C13 as claimed: whatever happens during the save at the end of a run, a load
\* afterwards observes either the window and proof a load observed before the
\* save, or the window and proof of the cache that was saved, and messages.json
\* is never left empty or cut off.
C13_AtomicSave ==
    [][ExitStep
          => /\ LoadObserved' \in {LoadObserved, <<messages, Str(OrEmpty(vqd_hash))>>}
             /\ disk_msgs.fault = "none" => disk_msgs'.fault = "none"]_vars

\* C14 as claimed: once the chat request is out, the user Turn of the query is
\* in the cache right after the window as loaded, the payload is get_messages()
\* of that cache, its last message is that user Turn, it holds at most max_size
\* messages, and they are the turns among the last max_size that are not older
\* than the horizon.
C14_PayloadContext ==
    ChatSent
       => /\ Len(messages) > Len(Loaded)
          /\ messages[Len(Loaded) + 1] = CachedMessage(now, UserTurn)
          /\ pc = "stream"
                => /\ payload = get_messages
                   /\ payload # <<>>
                   /\ payload[Len(payload)] = UserTurn
                   /\ Len(payload) <= max_size
                   /\ payload = KeptFrom(messages, 1, now, max_size)

\* C14, for a max_size of at least 1 only
PayloadContextPositiveSize == max_size >= 1 => C14_PayloadContext

\* C15: a run whose status request, chat request or stream was cut short by a
\* transport error, a timeout or an interrupt ends with the window as loaded
\* plus at most the user Turn of the query: the user Turn exactly when the chat
\* request had been attempted, and no Turn for the text accumulated up to the cut.
C15_NoPartialCommit ==
    (pc = "done" /\ outcome \in Cuts)
       => Turns(messages) = Turns(Loaded) \o (IF ChatSent THEN <<UserTurn>> ELSE <<>>)

\* C15 witness: the stream was cut after message text had been received
C15_Witness ==
    /\ pc = "done"
    /\ outcome \in Cuts
    /\ complete_response # <<>>
    /\ Len(events) = MaxLines
    /\ Len(messages) = Len(Loaded) + 1

\* C16 as claimed: whatever the runs have loaded, added, cleared and saved,
\* get_messages() returns at most max_size messages, for every max_size from 0 on.
C16_CountBound == Len(get_messages) <= max_size

\* C16, for a max_size of at least 1 only
CountBoundPositiveSize == max_size >= 1 => C16_CountBound

\* a request to the status or to the chat endpoint
IsGated(r) == r.kind \in {"status", "chat"}

\* C17: a status or chat request is issued, and a Turn is added to the cache,
\* only in a run that found the terms accepted at the gate; a run that reaches
\* the gate without them ends there with exit status 3, with no request issued
\* and the cache as loaded; the config and clear commands end with status 0
\* whether the terms are accepted or not, and they are the only other ways a
\* run ends without the terms accepted.
C17_TosGate ==
    /\ (\E i \in 1..Len(requests) : IsGated(requests[i])) => tos
    /\ pc \in {"gated", "got_vqd", "stream"} => tos
    /\ (pc # "off" /\ ~tos) => messages \in {Loaded, <<>>}
    /\ (pc = "done" /\ ~tos) => outcome \in {"configured", "cleared", "tos_required"}
    /\ exit_status = 3 <=> outcome = "tos_required"
    /\ (pc = "done" /\ outcome = "tos_required")
          => ~tos /\ requests = <<>> /\ messages = Loaded
    /\ outcome \in {"configured", "cleared"} => exit_status = 0

\* C17 witness: a run without the terms accepted has been turned away at the gate
C17_Witness ==
    /\ pc = "done"
    /\ ~tos
    /\ outcome = "tos_required"
    /\ exit_status = 3
    /\ requests = <<>>

====
